---------------------------- MODULE Spec2Model ----------------------------
(***************************************************************************)
(* Fair-Hire resume pipeline: model2.py (entity mode) and                  *)
(* Model/backend/app.py (raw-text mode behind a Flask endpoint).           *)
(*                                                                         *)
(* Strings are sequences of one-character strings, so that regular         *)
(* expression matching, joining, splitting and substring tests are         *)
(* computed character by character as the Python code computes them.       *)
(***************************************************************************)
EXTENDS Naturals, Sequences, FiniteSets

VARIABLES
    text,          \* model2.process_resume: text = read_docx(file_path)
    cleaned_text,  \* model2.process_resume: cleaned_text
    fpc,           \* position of the remove_sensitive_info call
    docs,          \* the two documents handed to the Document Reader
    read_out,      \* what the reader returned (or raised) for each document
    ner_results,   \* extract_entities: ner_pipeline(text)
    sents,         \* extract_entities: nlp(text).sents
    runs,          \* one record per pipeline run: entities, prompt, report
    tokenizer,     \* app.py global
    model,         \* app.py global
    model_loaded,  \* app.py global
    loader_pc,     \* position of load_llama_model
    gen_pc,        \* position of each generate_llama_report call
    request,       \* the request (or script invocation) being processed
    opc,           \* position of process_resume
    raw_text,      \* the Document Reader's result inside process_resume
    model_calls,   \* the document text each model was called with, in order
    stages,        \* the pipeline stages that have run, in order
    response       \* what process_resume returned to its caller

vars == << text, cleaned_text, fpc, docs, read_out, ner_results, sents, runs,
           tokenizer, model, model_loaded, loader_pc, gen_pc,
           request, opc, raw_text, model_calls, stages, response >>

filterVars == << text, cleaned_text, fpc >>
readerVars == << docs, read_out >>
extractVars == << ner_results, sents, runs >>
loadVars == << tokenizer, model, model_loaded, loader_pc, gen_pc >>
orchVars == << request, opc, raw_text, model_calls, stages, response >>

-----------------------------------------------------------------------------
(* Characters and Python string primitives                                 *)

UpperChars ==
    << "A", "B", "C", "D", "E", "F", "G", "H", "I", "J", "K", "L", "M",
       "N", "O", "P", "Q", "R", "S", "T", "U", "V", "W", "X", "Y", "Z" >>

LowerChars ==
    << "a", "b", "c", "d", "e", "f", "g", "h", "i", "j", "k", "l", "m",
       "n", "o", "p", "q", "r", "s", "t", "u", "v", "w", "x", "y", "z" >>

Digits == { "0", "1", "2", "3", "4", "5", "6", "7", "8", "9" }

Range(s) == { s[i] : i \in DOMAIN s }

\* \w of the re module, restricted to ASCII
WordChars == Range(UpperChars) \cup Range(LowerChars) \cup Digits \cup { "_" }

IsWordChar(c) == c \in WordChars

\* str.lower() on one character; also the case folding of re.IGNORECASE
LowerOf ==
    [ c \in Range(UpperChars) |->
        LowerChars[CHOOSE i \in DOMAIN UpperChars : UpperChars[i] = c] ]

LowerChar(c) == IF c \in DOMAIN LowerOf THEN LowerOf[c] ELSE c

Lower(s) == [ i \in DOMAIN s |-> LowerChar(s[i]) ]

\* s.startswith(p, i): p occurs in s at 0-based offset i
OccursAt(p, s, i) ==
    /\ i + Len(p) <= Len(s)
    /\ \A k \in 1 .. Len(p) : s[i + k] = p[k]

\* p in s
Contains(s, p) == \E i \in 0 .. Len(s) : OccursAt(p, s, i)

RECURSIVE Concat(_)
Concat(ss) == IF ss = << >> THEN << >> ELSE Head(ss) \o Concat(Tail(ss))

\* sep.join(ss)
RECURSIVE Join(_, _)
Join(sep, ss) ==
    IF ss = << >> THEN << >>
    ELSE IF Len(ss) = 1 THEN ss[1]
    ELSE ss[1] \o sep \o Join(sep, Tail(ss))

\* s.replace(old, "") : leftmost non-overlapping occurrences removed
RECURSIVE ReplaceFrom(_, _, _)
ReplaceFrom(s, old, i) ==
    IF i >= Len(s) THEN << >>
    ELSE IF OccursAt(old, s, i) THEN ReplaceFrom(s, old, i + Len(old))
    ELSE << s[i + 1] >> \o ReplaceFrom(s, old, i + 1)

Replace(s, old) == ReplaceFrom(s, old, 0)

-----------------------------------------------------------------------------
(* The re module, for patterns of the form \b(alt1|alt2|...)\b             *)

\* \b at 0-based offset i of s: exactly one side is a word character
WordBoundary(s, i) ==
    LET before == i > 0 /\ IsWordChar(s[i])
        after == i < Len(s) /\ IsWordChar(s[i + 1])
    IN  before # after

Fold(s, ignorecase) == IF ignorecase THEN Lower(s) ELSE s

FoldAlts(alts, ignorecase) == [ a \in DOMAIN alts |-> Fold(alts[a], ignorecase) ]

\* The alternatives of the group that match at offset i with \b on both
\* sides (alts and s already case-folded when the flag is set); the regex
\* engine takes the first one in pattern order.
AltsAt(alts, s, i) ==
    IF ~ WordBoundary(s, i) THEN { }
    ELSE { a \in DOMAIN alts :
             /\ OccursAt(alts[a], s, i)
             /\ WordBoundary(s, i + Len(alts[a])) }

\* Length of the match at offset i, 0 when there is none
MatchLen(alts, s, i) ==
    LET hit == AltsAt(alts, s, i)
    IN  IF hit = { } THEN 0
        ELSE Len(alts[CHOOSE a \in hit : \A b \in hit : a <= b])

\* re.search(pattern, s, flags) is not None
re_search(alts, s, ignorecase) ==
    LET fa == FoldAlts(alts, ignorecase)
        fs == Fold(s, ignorecase)
    IN  \E i \in 0 .. Len(s) : MatchLen(fa, fs, i) > 0

\* re.sub(pattern, "", s, flags=...): scan left to right, drop each match;
\* fs is s as the engine compares it, s supplies the characters kept
RECURSIVE re_sub_from(_, _, _, _)
re_sub_from(alts, s, fs, i) ==
    IF i >= Len(s) THEN << >>
    ELSE LET n == MatchLen(alts, fs, i)
         IN  IF n > 0 THEN re_sub_from(alts, s, fs, i + n)
             ELSE << s[i + 1] >> \o re_sub_from(alts, s, fs, i + 1)

re_sub(alts, s, ignorecase) ==
    re_sub_from(FoldAlts(alts, ignorecase), s, Fold(s, ignorecase), 0)

-----------------------------------------------------------------------------
(* model2.py: remove_sensitive_info                                        *)

sensitive_keywords ==
    << << <<"e", "t", "h", "n", "i", "c", "i", "t", "y">>,
          <<"r", "a", "c", "e">>,
          <<"c", "o", "l", "o", "r">>,
          <<"r", "e", "l", "i", "g", "i", "o", "n">>,
          <<"g", "e", "n", "d", "e", "r">>,
          <<"a", "g", "e">>,
          <<"n", "a", "t", "i", "o", "n", "a", "l", "i", "t", "y">>,
          <<"m", "a", "r", "i", "t", "a", "l", " ", "s", "t", "a", "t", "u", "s">> >>,
       << <<"b", "l", "a", "c", "k">>,
          <<"w", "h", "i", "t", "e">>,
          <<"a", "s", "i", "a", "n">>,
          <<"h", "i", "s", "p", "a", "n", "i", "c">>,
          <<"l", "a", "t", "i", "n", "o">>,
          <<"c", "h", "r", "i", "s", "t", "i", "a", "n">>,
          <<"m", "u", "s", "l", "i", "m">>,
          <<"j", "e", "w", "i", "s", "h">>,
          <<"m", "a", "l", "e">>,
          <<"f", "e", "m", "a", "l", "e">> >>,
       << <<"b", "o", "r", "n", " ", "o", "n">>,
          <<"d", "a", "t", "e", " ", "o", "f", " ", "b", "i", "r", "t", "h">>,
          <<"D", "O", "B">> >> >>

\* for pattern in sensitive_keywords: text = re.sub(pattern, "", text, ...)
RECURSIVE SubAll(_, _, _)
SubAll(patterns, s, ignorecase) ==
    IF patterns = << >> THEN s
    ELSE SubAll(Tail(patterns), re_sub(Head(patterns), s, ignorecase), ignorecase)

\* Plausible slip: flags=re.IGNORECASE left out of the re.sub call
remove_sensitive_info_case_sensitive(s) == SubAll(sensitive_keywords, s, FALSE)

remove_sensitive_info(s) == SubAll(sensitive_keywords, s, TRUE)

-----------------------------------------------------------------------------
(* Inputs of the Sensitive-Content Filter                                  *)

MaxFrags == 4

\* Pieces resume text is assembled from: taxonomy terms in both cases, parts
\* of terms (with and without a separator), a separator, and a plain word
\* character
Fragments ==
    { <<"a", "g", "e">>,
      <<"M", "a", "l", "e">>,
      <<"f", "e">>,
      <<"m", "a", "l", "e">>,
      <<"m", "a", "r", "i", "t", "a", "l", " ">>,
      <<" ", "s", "t", "a", "t", "u", "s">>,
      <<"s", "t", "a", "t", "u", "s">>,
      <<" ">>,
      <<"x">>,
      <<"D", "O", "B">> }

RECURSIVE TextsUpTo(_)
TextsUpTo(n) ==
    IF n = 0 THEN { << >> }
    ELSE LET prev == TextsUpTo(n - 1)
         IN  prev \cup { t \o f : t \in prev, f \in Fragments }

\* The scenario of the specification's section 8
Scenario ==
    <<"J", "o", "h", "n", " ", "D", "o", "e", ",", " ", "m", "a", "l", "e", ",",
      " ", "a", "g", "e", " ", "3", "4", ",", " ", "w", "o", "r", "k", "e", "d",
      " ", "a", "t", " ", "A", "c", "m", "e", " ", "C", "o", "r", "p", " ", "a",
      "s", " ", "E", "n", "g", "i", "n", "e", "e", "r", ".", " ", "S", "k", "i",
      "l", "l", "s", ":", " ", "J", "a", "v", "a", ",", " ", "L", "e", "a", "d",
      "e", "r", "s", "h", "i", "p", ".">>

FilterInputs == TextsUpTo(MaxFrags) \cup { Scenario }

-----------------------------------------------------------------------------
(* Idle values of each component's variables                               *)

FilterIdle == text = << >> /\ cleaned_text = << >> /\ fpc = "idle"

ReaderIdle == docs = << >> /\ read_out = << >>

ExtractIdle == ner_results = << >> /\ sents = << >> /\ runs = << >>

LoadIdle ==
    /\ tokenizer = "None" /\ model = "None" /\ model_loaded = FALSE
    /\ loader_pc = "idle" /\ gen_pc = << >>

OrchIdle ==
    /\ request = [ mode |-> "none" ] /\ opc = "idle" /\ raw_text = << >>
    /\ model_calls = << >> /\ stages = << >> /\ response = [ kind |-> "none" ]

-----------------------------------------------------------------------------
(* Specification of the filter: model2.py lines 54-64 applied to one text  *)

InitFilter ==
    /\ text \in FilterInputs
    /\ cleaned_text = << >>
    /\ fpc = "call"
    /\ ReaderIdle /\ ExtractIdle /\ LoadIdle /\ OrchIdle

\* cleaned_text = remove_sensitive_info(text)
RemoveSensitiveInfo ==
    /\ fpc = "call"
    /\ cleaned_text' = remove_sensitive_info(text)
    /\ fpc' = "ret"
    /\ UNCHANGED << text, readerVars, extractVars, loadVars, orchVars >>

NextFilter == RemoveSensitiveInfo

SpecFilter == InitFilter /\ [][NextFilter]_vars

\* C1: the output of remove_sensitive_info contains no match of any of the
\* three case-insensitive patterns of sensitive_keywords
C1_NoPatternSurvives ==
    fpc = "ret" =>
        \A k \in DOMAIN sensitive_keywords :
            ~ re_search(sensitive_keywords[k], cleaned_text, TRUE)

Marital == <<"m", "a", "r", "i", "t", "a", "l">>

Status == <<"s", "t", "a", "t", "u", "s">>

\* C1 witness: a removal strictly inside the text, which joins the text on
\* both sides of the removed span and so brings the two words of a taxonomy
\* term next to each other
C1_Witness ==
    /\ fpc = "ret"
    /\ re_search(sensitive_keywords[1], text, TRUE)
    /\ Len(cleaned_text) >= 2
    /\ Len(cleaned_text) < Len(text)
    /\ cleaned_text[1] = text[1]
    /\ cleaned_text[Len(cleaned_text)] = text[Len(text)]
    /\ Contains(cleaned_text, Marital \o << " ", " " >> \o Status)

MaleWord == <<"m", "a", "l", "e">>

AgeNumber == <<"3", "4">>

\* C8: for the scenario text, neither the gender term nor the number of the
\* age marker occurs in the filtered text
C8_ScenarioFiltered ==
    (fpc = "ret" /\ text = Scenario) =>
        /\ ~ Contains(Lower(cleaned_text), MaleWord)
        /\ ~ Contains(cleaned_text, AgeNumber)

-----------------------------------------------------------------------------
(* Document Reader: model2.py read_docx, app.py read_docx_from_bytes       *)

NL == << "\n" >>

\* s.split("\n"): the pieces of s between newline characters
RECURSIVE SplitFrom(_, _, _)
SplitFrom(s, i, cur) ==
    IF i > Len(s) THEN << cur >>
    ELSE IF s[i] = "\n" THEN << cur >> \o SplitFrom(s, i + 1, << >>)
    ELSE SplitFrom(s, i + 1, Append(cur, s[i]))

Split(s) == SplitFrom(s, 1, << >>)

\* Plausible slip: "".join(full_text) in place of "\n".join(full_text)
read_docx_no_separator(doc) ==
    IF ~ doc.parseable
    THEN [ raised |-> "docx.Document", value |-> << >> ]
    ELSE [ raised |-> "none", value |-> Join(<< >>, doc.paragraphs) ]

\* model2.py read_docx: docx.Document(file_path) raises on a file that is no
\* document container; otherwise the paragraph texts joined by newlines
read_docx(doc) ==
    IF ~ doc.parseable
    THEN [ raised |-> "docx.Document", value |-> << >> ]
    ELSE [ raised |-> "none", value |-> Join(NL, doc.paragraphs) ]

\* app.py read_docx_from_bytes: the same, any exception turned into
\* ValueError("Could not read DOCX file.")
read_docx_from_bytes(doc) ==
    IF ~ doc.parseable
    THEN [ raised |-> "ValueError", value |-> << >> ]
    ELSE [ raised |-> "none", value |-> Join(NL, doc.paragraphs) ]

MaxParas == 2

\* para.text of a paragraph: python-docx renders a line break inside a
\* paragraph as a newline character
ParaTexts ==
    { << >>,
      <<"A", "l">>,
      <<"S", "Q", "L">>,
      <<"A", "l", "\n", "S", "Q", "L">> }

RECURSIVE SeqsUpTo(_, _)
SeqsUpTo(S, n) ==
    IF n = 0 THEN { << >> }
    ELSE LET prev == SeqsUpTo(S, n - 1)
         IN  prev \cup { Append(q, x) : q \in prev, x \in S }

Documents ==
    { [ parseable |-> TRUE, paragraphs |-> ps ] : ps \in SeqsUpTo(ParaTexts, MaxParas) }
        \cup { [ parseable |-> FALSE, paragraphs |-> << >> ] }

InitReader ==
    /\ docs \in [ 1 .. 2 -> Documents ]
    /\ read_out = << >>
    /\ FilterIdle /\ ExtractIdle /\ LoadIdle /\ OrchIdle

\* text = read_docx(file_path) on the next document
ReadDocx ==
    /\ Len(read_out) < Len(docs)
    /\ read_out' = Append(read_out, read_docx(docs[Len(read_out) + 1]))
    /\ UNCHANGED << docs, filterVars, extractVars, loadVars, orchVars >>

\* raw_resume_text = read_docx_from_bytes(docx_bytes) on the next document
ReadDocxFromBytes ==
    /\ Len(read_out) < Len(docs)
    /\ read_out' = Append(read_out, read_docx_from_bytes(docs[Len(read_out) + 1]))
    /\ UNCHANGED << docs, filterVars, extractVars, loadVars, orchVars >>

NextReader == ReadDocx \/ ReadDocxFromBytes

SpecReader == InitReader /\ [][NextReader]_vars

NewlineFree(ps) == \A i \in DOMAIN ps : "\n" \notin Range(ps[i])

ReadOk(i) == i \in DOMAIN read_out /\ docs[i].parseable

\* C7 as stated: two documents with different paragraph sequences never
\* yield the same result (so the sequence can be recovered from the result)
C7_ReaderInjective ==
    (ReadOk(1) /\ ReadOk(2) /\ docs[1].paragraphs # docs[2].paragraphs) =>
        read_out[1].value # read_out[2].value

\* C7 amended: a parseable document is read without error; zero paragraphs
\* give the empty string; a non-empty sequence of newline-free paragraphs is
\* recovered, in order and unmodified, by splitting the result at newlines,
\* so two different such sequences never give the same result
C7_ReaderRecoverable ==
    /\ \A i \in DOMAIN read_out :
          docs[i].parseable =>
              /\ read_out[i].raised = "none"
              /\ docs[i].paragraphs = << >> => read_out[i].value = << >>
              /\ (docs[i].paragraphs # << >> /\ NewlineFree(docs[i].paragraphs)) =>
                    Split(read_out[i].value) = docs[i].paragraphs
    /\ ( /\ ReadOk(1) /\ ReadOk(2)
         /\ docs[1].paragraphs # << >> /\ docs[2].paragraphs # << >>
         /\ NewlineFree(docs[1].paragraphs) /\ NewlineFree(docs[2].paragraphs)
         /\ docs[1].paragraphs # docs[2].paragraphs )
       => read_out[1].value # read_out[2].value

\* C7 witness: two different two-paragraph documents, both read, one of them
\* holding an empty paragraph, and an empty document read before them
C7_Witness ==
    /\ ReadOk(1) /\ ReadOk(2)
    /\ Len(docs[1].paragraphs) = 2 /\ Len(docs[2].paragraphs) = 2
    /\ NewlineFree(docs[1].paragraphs) /\ NewlineFree(docs[2].paragraphs)
    /\ docs[1].paragraphs # docs[2].paragraphs
    /\ docs[1].paragraphs[1] = << >>
    /\ Split(read_out[2].value) = docs[2].paragraphs

-----------------------------------------------------------------------------
(* Entity Extractor: model2.py extract_entities                            *)

\* entity["entity"].startswith("B-PER") or ...startswith("I-PER"): the labels
\* of dslim/bert-base-NER are a closed set, none a prefix of another
IsPersonTag(tag) == tag \in { "B-PER", "I-PER" }

IsBeginOrgTag(tag) == tag = "B-ORG"

Space == << " " >>

SubwordJoint == << " ", "#", "#" >>

\* " ".join(current_name).replace(" ##", "")
MergeWords(words) == Replace(Join(Space, words), SubwordJoint)

\* The loop of lines 28-36 from token i on: acc.name and acc.organization
\* are the lists built so far, cur is current_name
RECURSIVE NerLoop(_, _, _, _)
NerLoop(results, i, cur, acc) ==
    IF i > Len(results) THEN acc
    ELSE LET e == results[i]
             flush == ~ IsPersonTag(e.entity) /\ cur # << >>
             names == IF flush THEN Append(acc.name, MergeWords(cur)) ELSE acc.name
             cur2 == IF IsPersonTag(e.entity) THEN Append(cur, e.word)
                     ELSE IF flush THEN << >> ELSE cur
             orgs == IF IsBeginOrgTag(e.entity)
                     THEN Append(acc.organization, Replace(e.word, SubwordJoint))
                     ELSE acc.organization
         IN  NerLoop(results, i + 1, cur2, [ name |-> names, organization |-> orgs ])

education_keywords ==
    << <<"e", "d", "u", "c", "a", "t", "i", "o", "n">>,
       <<"d", "e", "g", "r", "e", "e">>,
       <<"u", "n", "i", "v", "e", "r", "s", "i", "t", "y">>,
       <<"c", "o", "l", "l", "e", "g", "e">> >>

skills_keywords ==
    << <<"s", "k", "i", "l", "l", "s">>,
       <<"p", "r", "o", "f", "i", "c", "i", "e", "n", "t">>,
       <<"e", "x", "p", "e", "r", "t", "i", "s", "e">> >>

IsSpaceChar(c) == c \in { " ", "\n", "\t" }

\* s.strip()
RECURSIVE LStrip(_)
LStrip(s) == IF s # << >> /\ IsSpaceChar(Head(s)) THEN LStrip(Tail(s)) ELSE s

RECURSIVE RStrip(_)
RStrip(s) ==
    IF s # << >> /\ IsSpaceChar(s[Len(s)]) THEN RStrip(SubSeq(s, 1, Len(s) - 1)) ELSE s

Strip(s) == LStrip(RStrip(s))

\* any(keyword in sent.text.lower() for keyword in keywords)
AnyKeyword(keywords, sent) ==
    \E k \in DOMAIN keywords : Contains(Lower(sent), keywords[k])

\* The sentences of ss, stripped, that hold one of the keywords (lines 40-44)
RECURSIVE KeywordSents(_, _)
KeywordSents(keywords, ss) ==
    IF ss = << >> THEN << >>
    ELSE IF AnyKeyword(keywords, Head(ss))
         THEN << Strip(Head(ss)) >> \o KeywordSents(keywords, Tail(ss))
         ELSE KeywordSents(keywords, Tail(ss))

\* The four lists before the clean-up of lines 46-50
EntityLists(results, ss) ==
    LET ner == NerLoop(results, 1, << >>, [ name |-> << >>, organization |-> << >> ])
    IN  [ name |-> ner.name,
          organization |-> ner.organization,
          skills |-> KeywordSents(skills_keywords, ss),
          education |-> KeywordSents(education_keywords, ss) ]

\* list(set(xs)): the distinct elements of xs in the iteration order of a
\* set of strings, which depends on the per-process string hash seed; every
\* order is a possible outcome
ListOfSet(xs) ==
    LET S == Range(xs)
        n == Cardinality(S)
    IN  { p \in [ 1 .. n -> S ] : \A i, j \in 1 .. n : p[i] = p[j] => i = j }

\* xs[:1]
FirstOnly(xs) == IF xs = << >> THEN << >> ELSE << xs[1] >>

\* extract_entities(text): the bundles the clean-up of lines 46-50 can return
extract_entities(results, ss) ==
    LET lists == EntityLists(results, ss)
    IN  { [ name |-> FirstOnly(n), organization |-> o, skills |-> s, education |-> e ] :
          n \in ListOfSet(lists.name), o \in ListOfSet(lists.organization),
          s \in ListOfSet(lists.skills), e \in ListOfSet(lists.education) }

-----------------------------------------------------------------------------
(* Report Synthesizer: model2.py generate_report                           *)

PromptHead ==
    << "\n", " ", " ", " ", " ", "C", "a", "n", "d", "i", "d", "a", "t", "e",
       " ", "R", "e", "p", "o", "r", "t", "\n", "\n", " ", " ", " ", " ",
       "N", "a", "m", "e", ":", " " >>

QualificationsLabel ==
    << "\n", " ", " ", " ", " ", "Q", "u", "a", "l", "i", "f", "i", "c", "a",
       "t", "i", "o", "n", "s", ":", " " >>

ExperienceLabel ==
    << "\n", " ", " ", " ", " ", "E", "x", "p", "e", "r", "i", "e", "n", "c",
       "e", ":", " " >>

SkillsLabel ==
    << "\n", " ", " ", " ", " ", "S", "k", "i", "l", "l", "s", ":", " " >>

PromptTail ==
    << "\n", "\n", " ", " ", " ", " ", "S", "u", "m", "m", "a", "r", "i",
       "z", "e", " ", "t", "h", "e", " ", "a", "b", "o", "v", "e", " ", "i",
       "n", "f", "o", "r", "m", "a", "t", "i", "o", "n", " ", "i", "n", " ",
       "a", " ", "p", "r", "o", "f", "e", "s", "s", "i", "o", "n", "a", "l",
       " ", "t", "o", "n", "e", " ", "f", "o", "r", " ", "H", "R", " ", "r",
       "e", "v", "i", "e", "w", ",", " ", "f", "o", "c", "u", "s", "i", "n",
       "g", " ", "o", "n", " ", "q", "u", "a", "l", "i", "f", "i", "c", "a",
       "t", "i", "o", "n", "s", ",", " ", "e", "x", "p", "e", "r", "i", "e",
       "n", "c", "e", ",", " ", "a", "n", "d", " ", "s", "k", "i", "l", "l",
       "s", ".", "\n", " ", " ", " ", " " >>

NotProvided ==
    << "N", "o", "t", " ", "P", "r", "o", "v", "i", "d", "e", "d" >>

CommaSpace ==
    << ",", " " >>

\* ', '.join(xs) if xs else 'Not Provided'
RenderList(xs) == IF xs # << >> THEN Join(CommaSpace, xs) ELSE NotProvided

\* Plausible slip: the else branch of the Skills field left out
generate_report_prompt_no_placeholder(entities) ==
    Concat(<< PromptHead,
              IF entities.name # << >> THEN entities.name[1] ELSE NotProvided,
              QualificationsLabel, RenderList(entities.education),
              ExperienceLabel, RenderList(entities.organization),
              SkillsLabel, Join(CommaSpace, entities.skills),
              PromptTail >>)

\* The f-string of lines 68-77
generate_report_prompt(entities) ==
    Concat(<< PromptHead,
              IF entities.name # << >> THEN entities.name[1] ELSE NotProvided,
              QualificationsLabel, RenderList(entities.education),
              ExperienceLabel, RenderList(entities.organization),
              SkillsLabel, RenderList(entities.skills),
              PromptTail >>)

\* generator(prompt, ...)[0]["generated_text"] of a deterministic generator:
\* the prompt followed by a continuation that is a function of the prompt
\* (the prompts of this model stay below the 200-token truncation)
GeneratedContinuation(prompt) == << "<continuation>" >>

generator(prompt) == prompt \o GeneratedContinuation(prompt)

generate_report(entities) == generator(generate_report_prompt(entities))

-----------------------------------------------------------------------------
(* Specification of extraction and synthesis: the NER results and the      *)
(* sentences are the outputs of the external models for one document; the  *)
(* pipeline runs on them repeatedly, each run a fresh process               *)

MaxTokens == 3

MaxRuns == 2

\* Word pieces as dslim/bert-base-NER returns them, with their labels
NerTokens ==
    { [ entity |-> "B-PER", word |-> <<"J", "o">> ],
      [ entity |-> "I-PER", word |-> <<"#", "#", "h", "n">> ],
      [ entity |-> "B-PER", word |-> <<"A", "l">> ],
      [ entity |-> "B-ORG", word |-> <<"A", "c", "m", "e">> ],
      [ entity |-> "I-ORG", word |-> <<"C", "o", "r", "p">> ],
      [ entity |-> "B-ORG", word |-> <<"I", "B", "M">> ] }

S_skills == <<" ", "S", "k", "i", "l", "l", "s", ":", " ", "S", "Q", "L">>

S_degree == <<"B", "S", "c", " ", "d", "e", "g", "r", "e", "e", ".">>

S_both == <<"C", "o", "l", "l", "e", "g", "e", " ", "E", "x", "p", "e", "r", "t", "i", "s", "e">>

S_plain == <<"w", "o", "r", "k", "e", "d">>

\* The sentence lists tried: none, a skills sentence, mixed lists, and a
\* repeated sentence
SentInputs ==
    { << >>,
      << S_skills >>,
      << S_degree, S_plain >>,
      << S_skills, S_degree >>,
      << S_both, S_skills >>,
      << S_skills, S_skills >> }

InitExtract ==
    /\ ner_results \in SeqsUpTo(NerTokens, MaxTokens)
    /\ sents \in SentInputs
    /\ runs = << >>
    /\ FilterIdle /\ ReaderIdle /\ LoadIdle /\ OrchIdle

\* entities = extract_entities(cleaned_text); report = generate_report(entities)
ProcessRun ==
    /\ Len(runs) < MaxRuns
    /\ \E e \in extract_entities(ner_results, sents) :
          runs' = Append(runs, [ entities |-> e,
                                 prompt |-> generate_report_prompt(e),
                                 report |-> generate_report(e) ])
    /\ UNCHANGED << ner_results, sents, filterVars, readerVars, loadVars, orchVars >>

NextExtract == ProcessRun

SpecExtract == InitExtract /\ [][NextExtract]_vars

\* C5: two runs of the pipeline on the same input, with a deterministic
\* generator, build the same prompt and produce the same report
C5_RunsAgree ==
    Len(runs) >= 2 =>
        /\ runs[1].prompt = runs[2].prompt
        /\ runs[1].report = runs[2].report

FieldLabels ==
    [ name |-> PromptHead, education |-> QualificationsLabel,
      organization |-> ExperienceLabel, skills |-> SkillsLabel ]

\* The field under label reads exactly value: label, value, end of line
FieldReads(prompt, label, value) == Contains(prompt, label \o value \o NL)

\* C6: the prompt of generate_report holds all four fields, and a field
\* reads 'Not Provided' exactly when its category is empty (stated of the
\* latest run; every run is the latest one in some state)
C6_NotProvidedIffEmpty ==
    runs # << >> =>
        LET r == runs[Len(runs)]
        IN  \A c \in DOMAIN FieldLabels :
                /\ Contains(r.prompt, FieldLabels[c])
                /\ FieldReads(r.prompt, FieldLabels[c], NotProvided)
                       <=> (r.entities[c] = << >>)

\* C6 witness: a run on NER results without any person token, with a
\* skills sentence: the name field is the placeholder, the skills field not
C6_Witness ==
    /\ Len(runs) >= 1
    /\ \A i \in DOMAIN ner_results : ~ IsPersonTag(ner_results[i].entity)
    /\ ner_results # << >>
    /\ runs[1].entities.skills # << >>
    /\ FieldReads(runs[1].prompt, PromptHead, NotProvided)
    /\ FieldReads(runs[1].prompt, SkillsLabel, Strip(S_skills))
    /\ FieldReads(runs[1].prompt, QualificationsLabel, NotProvided)

HasPerson(results) == \E i \in DOMAIN results : IsPersonTag(results[i].entity)

\* The words of the maximal run of tokens labelled in tags that starts at i
RECURSIVE RunWords(_, _, _)
RunWords(results, i, tags) ==
    IF i > Len(results) \/ results[i].entity \notin tags THEN << >>
    ELSE << results[i].word >> \o RunWords(results, i + 1, tags)

FirstPersonRun(results) ==
    LET first == CHOOSE i \in DOMAIN results :
                     /\ IsPersonTag(results[i].entity)
                     /\ \A j \in 1 .. i - 1 : ~ IsPersonTag(results[j].entity)
    IN  MergeWords(RunWords(results, first, { "B-PER", "I-PER" }))

\* C9: the name category holds at most one entry, and when the NER results
\* hold a person token that entry is the first merged run of person tokens
C9_NameIsFirstPersonRun ==
    \A r \in DOMAIN runs :
        /\ Len(runs[r].entities.name) <= 1
        /\ HasPerson(ner_results) =>
               runs[r].entities.name = << FirstPersonRun(ner_results) >>

\* The merged text of the organization run that begins at token i
OrgRun(results, i) ==
    MergeWords(<< results[i].word >> \o RunWords(results, i + 1, { "I-ORG" }))

NoDuplicates(xs) == \A i, j \in DOMAIN xs : xs[i] = xs[j] => i = j

\* C10: every maximal run of organization tokens (a begin token and its
\* inside tokens) is present, merged, in the organization category, which
\* holds no duplicates
C10_OrgRunsMerged ==
    \A r \in DOMAIN runs :
        /\ NoDuplicates(runs[r].entities.organization)
        /\ \A i \in DOMAIN ner_results :
               IsBeginOrgTag(ner_results[i].entity) =>
                   OrgRun(ner_results, i) \in Range(runs[r].entities.organization)

-----------------------------------------------------------------------------
(* app.py: load_llama_model running against generate_llama_report calls    *)
(* The interpreter executes one bytecode at a time, so every read or write *)
(* of a global is one step; load_llama_model is called from __main__.      *)

MaxCalls == 2

Calls == 1 .. MaxCalls

\* Positions of a generate_llama_report call from which it uses the
\* tokenizer (lines 114, 121, 133-134) or the model (line 123)
UsingModel == { "template", "tokenize", "generate", "decode" }

InitLoad ==
    /\ tokenizer = "None"
    /\ model = "None"
    /\ model_loaded = FALSE
    /\ loader_pc = "idle"
    /\ gen_pc = [ c \in Calls |-> [ pc |-> "idle", ready_at_start |-> FALSE ] ]
    /\ FilterIdle /\ ReaderIdle /\ ExtractIdle /\ OrchIdle

Alive == loader_pc # "exited"

\* __main__ line 174: load_llama_model() is entered
LoadCall ==
    /\ loader_pc \in { "idle", "done" }
    /\ loader_pc' = "check"
    /\ UNCHANGED << tokenizer, model, model_loaded, gen_pc >>
    /\ UNCHANGED << filterVars, readerVars, extractVars, orchVars >>

\* lines 34-36: if model_loaded: return
LoadCheck ==
    /\ loader_pc = "check"
    /\ loader_pc' = IF model_loaded THEN "done" ELSE "token"
    /\ UNCHANGED << tokenizer, model, model_loaded, gen_pc >>
    /\ UNCHANGED << filterVars, readerVars, extractVars, orchVars >>

\* lines 41-43: the Hugging Face token is read from the environment; a
\* missing token raises, and the handler of lines 56-59 exits the process
LoadToken ==
    /\ loader_pc = "token"
    /\ \E present \in BOOLEAN :
          loader_pc' = IF present THEN "tokenizer" ELSE "exited"
    /\ UNCHANGED << tokenizer, model, model_loaded, gen_pc >>
    /\ UNCHANGED << filterVars, readerVars, extractVars, orchVars >>

\* line 45: tokenizer = AutoTokenizer.from_pretrained(...), or it raises
LoadTokenizer ==
    /\ loader_pc = "tokenizer"
    /\ \/ tokenizer' = "loaded" /\ loader_pc' = "model"
       \/ tokenizer' = tokenizer /\ loader_pc' = "exited"
    /\ UNCHANGED << model, model_loaded, gen_pc >>
    /\ UNCHANGED << filterVars, readerVars, extractVars, orchVars >>

\* Plausible slip: model_loaded = True placed before model.eval()
LoadModelSetsFlag ==
    /\ loader_pc = "model"
    /\ model' = "loaded"
    /\ model_loaded' = TRUE
    /\ loader_pc' = "eval"
    /\ UNCHANGED << tokenizer, gen_pc >>
    /\ UNCHANGED << filterVars, readerVars, extractVars, orchVars >>
    /\ UNCHANGED << filterVars, readerVars, extractVars, orchVars >>

\* lines 46-51: model = AutoModelForCausalLM.from_pretrained(...).to(DEVICE)
LoadModel ==
    /\ loader_pc = "model"
    /\ \/ model' = "loaded" /\ loader_pc' = "eval"
       \/ model' = model /\ loader_pc' = "exited"
    /\ UNCHANGED << tokenizer, model_loaded, gen_pc >>
    /\ UNCHANGED << filterVars, readerVars, extractVars, orchVars >>

\* line 53: model.eval()
LoadEval ==
    /\ loader_pc = "eval"
    /\ model' = "eval"
    /\ loader_pc' = "flag"
    /\ UNCHANGED << tokenizer, model_loaded, gen_pc >>
    /\ UNCHANGED << filterVars, readerVars, extractVars, orchVars >>

\* line 54: model_loaded = True
LoadFlag ==
    /\ loader_pc = "flag"
    /\ model_loaded' = TRUE
    /\ loader_pc' = "done"
    /\ UNCHANGED << tokenizer, model, gen_pc >>
    /\ UNCHANGED << filterVars, readerVars, extractVars, orchVars >>

SetCall(c, pc) == gen_pc' = [ gen_pc EXCEPT ![c].pc = pc ]

\* lines 79-80: the call starts by reading model_loaded, and raises
\* RuntimeError("LLaMA model not loaded.") when it is false
GenCheck(c) ==
    /\ Alive
    /\ gen_pc[c].pc = "idle"
    /\ gen_pc' = [ gen_pc EXCEPT ![c] =
                     [ pc |-> IF model_loaded THEN "template" ELSE "rejected",
                       ready_at_start |-> model_loaded ] ]
    /\ UNCHANGED << tokenizer, model, model_loaded, loader_pc >>
    /\ UNCHANGED << filterVars, readerVars, extractVars, orchVars >>

\* lines 114-118: tokenizer.apply_chat_template(...); on an unset tokenizer
\* the attribute access raises, and lines 137-139 wrap it in RuntimeError
GenTemplate(c) ==
    /\ Alive
    /\ gen_pc[c].pc = "template"
    /\ SetCall(c, IF tokenizer = "loaded" THEN "tokenize" ELSE "failed")
    /\ UNCHANGED << tokenizer, model, model_loaded, loader_pc >>
    /\ UNCHANGED << filterVars, readerVars, extractVars, orchVars >>

\* line 121: tokenizer(input_text, return_tensors="pt").to(DEVICE)
GenTokenize(c) ==
    /\ Alive
    /\ gen_pc[c].pc = "tokenize"
    /\ SetCall(c, IF tokenizer = "loaded" THEN "generate" ELSE "failed")
    /\ UNCHANGED << tokenizer, model, model_loaded, loader_pc >>
    /\ UNCHANGED << filterVars, readerVars, extractVars, orchVars >>

\* lines 123-131: model.generate(...), which may raise
GenGenerate(c) ==
    /\ Alive
    /\ gen_pc[c].pc = "generate"
    /\ \/ model # "None" /\ SetCall(c, "decode")
       \/ SetCall(c, "failed")
    /\ UNCHANGED << tokenizer, model, model_loaded, loader_pc >>
    /\ UNCHANGED << filterVars, readerVars, extractVars, orchVars >>

\* lines 133-136: decode, strip the end-of-sequence marker, return
GenDecode(c) ==
    /\ Alive
    /\ gen_pc[c].pc = "decode"
    /\ SetCall(c, IF tokenizer = "loaded" THEN "returned" ELSE "failed")
    /\ UNCHANGED << tokenizer, model, model_loaded, loader_pc >>
    /\ UNCHANGED << filterVars, readerVars, extractVars, orchVars >>

NextLoad ==
    \/ LoadCall \/ LoadCheck \/ LoadToken \/ LoadTokenizer
    \/ LoadModel \/ LoadEval \/ LoadFlag
    \/ \E c \in Calls :
          \/ GenCheck(c) \/ GenTemplate(c) \/ GenTokenize(c)
          \/ GenGenerate(c) \/ GenDecode(c)

SpecLoad == InitLoad /\ [][NextLoad]_vars

\* C4: a call that starts before initialization has completed is rejected,
\* no call uses the tokenizer or the model while either is unset or the
\* model is not yet in evaluation mode, and model_loaded is true only when
\* both are fully loaded
C4_NoPartialModelUse ==
    /\ model_loaded => (tokenizer = "loaded" /\ model = "eval")
    /\ \A c \in Calls :
          /\ (gen_pc[c].pc # "idle" /\ ~ gen_pc[c].ready_at_start) =>
                 gen_pc[c].pc = "rejected"
          /\ gen_pc[c].pc \in UsingModel =>
                 (tokenizer = "loaded" /\ model = "eval")

\* C4 witness: one call started while the model was being loaded and was
\* rejected, another started after the flag was raised and is generating
C4_Witness ==
    \E c, d \in Calls :
        /\ gen_pc[c].pc = "rejected"
        /\ gen_pc[d].pc = "generate" /\ gen_pc[d].ready_at_start
        /\ loader_pc = "done"

-----------------------------------------------------------------------------
(* Pipeline Orchestrator: process_resume of app.py (the /process_resume    *)
(* endpoint) and process_resume of model2.py (the script)                  *)

\* Document texts the orchestrators are run on
OrchTexts ==
    { << >>,
      <<"x">>,
      <<"M", "a", "l", "e", " ", "x">>,
      <<"a", "g", "e", " ", "3", "4", "\n", "x">> }

\* What the caller sends: for the endpoint a request with its JSON body
\* (fileContent absent, empty, a number, not base64, base64 of bytes that
\* are no document, or base64 of a document; fileName absent or given), for the
\* script a file path (to a document or to something else)
EndpointRequests ==
    { [ mode |-> "endpoint", is_json |-> j, fileContent |-> c, fileName |-> n,
        doc |-> d ] :
        j \in BOOLEAN,
        c \in { "absent", "empty", "number", "not_base64", "not_docx", "docx" },
        n \in { "absent", "cv.docx", "cv.pdf" },
        d \in OrchTexts }

ScriptRequests ==
    { [ mode |-> "script", is_json |-> FALSE, fileContent |-> c, fileName |-> "cv.docx",
        doc |-> d ] :
        c \in { "not_docx", "docx" }, d \in OrchTexts }

NoResponse == [ kind |-> "none" ]

\* jsonify({"error": message}), status
ErrorPayload(status, message) ==
    [ kind |-> "error", status |-> status, keys |-> { "error" },
      error |-> message, report |-> << >> ]

\* jsonify({"report": final_report}), 200
ReportPayload(report) ==
    [ kind |-> "report", status |-> 200, keys |-> { "report" },
      error |-> "", report |-> report ]

\* An exception that leaves process_resume: Flask answers it with its own
\* 500 page, the script ends with a traceback
Unhandled(exception) ==
    [ kind |-> "unhandled", status |-> 500, keys |-> { },
      error |-> exception, report |-> << >> ]

\* The state the server or script is in when process_resume is called: the
\* model loaded by load_llama_model, or not loaded
InitOrch ==
    /\ request \in EndpointRequests \cup ScriptRequests
    /\ opc = "validate"
    /\ raw_text = << >>
    /\ model_calls = << >>
    /\ stages = << >>
    /\ response = NoResponse
    /\ model_loaded \in BOOLEAN
    /\ tokenizer = IF model_loaded THEN "loaded" ELSE "None"
    /\ model = IF model_loaded THEN "eval" ELSE "None"
    /\ loader_pc = "idle" /\ gen_pc = << >>
    /\ FilterIdle /\ ReaderIdle /\ ExtractIdle

Finish(r) == response' = r /\ opc' = "done"

orchRest == << readerVars, loadVars, ner_results, sents, fpc >>

\* app.py lines 144-155: the checks before the try block
EpValidate ==
    /\ request.mode = "endpoint" /\ opc = "validate"
    /\ stages' = Append(stages, "validate")
    /\ IF ~ request.is_json
       THEN Finish(ErrorPayload(400, "Request must be JSON"))
       ELSE IF request.fileContent \in { "absent", "empty" }
       THEN Finish(ErrorPayload(400, "No file content provided"))
       ELSE IF request.fileName = "absent"
       THEN Finish(Unhandled("AttributeError: 'NoneType' object has no attribute 'endswith'"))
       ELSE IF request.fileName # "cv.docx"
       THEN Finish(ErrorPayload(400, "Only .docx files are supported"))
       ELSE opc' = "decode" /\ response' = response
    /\ UNCHANGED << request, raw_text, model_calls, text, cleaned_text, runs, orchRest >>

\* line 158: base64.b64decode raises TypeError on what is no string (caught
\* at lines 167-169), binascii.Error (a ValueError) on wrong padding, and
\* otherwise decodes what it can
EpDecode ==
    /\ request.mode = "endpoint" /\ opc = "decode"
    /\ stages' = Append(stages, "decode")
    /\ \/ /\ request.fileContent = "number"
          /\ Finish(ErrorPayload(500, "An unexpected error occurred on the server."))
       \/ /\ request.fileContent = "not_base64"
          /\ Finish(ErrorPayload(400, "Incorrect padding"))
       \/ /\ request.fileContent # "number"
          /\ opc' = "read" /\ response' = response
    /\ UNCHANGED << request, raw_text, model_calls, text, cleaned_text, runs, orchRest >>

\* The document handed to the reader
RequestDoc ==
    [ parseable |-> request.fileContent = "docx", paragraphs |-> Split(request.doc) ]

\* line 159: raw_resume_text = read_docx_from_bytes(docx_bytes)
EpRead ==
    /\ request.mode = "endpoint" /\ opc = "read"
    /\ stages' = Append(stages, "read")
    /\ LET r == read_docx_from_bytes(RequestDoc)
       IN  IF r.raised # "none"
           THEN Finish(ErrorPayload(400, "Could not read DOCX file.")) /\ raw_text' = raw_text
           ELSE raw_text' = r.value /\ opc' = "generate" /\ response' = response
    /\ UNCHANGED << request, model_calls, text, cleaned_text, runs, orchRest >>

\* The decoded output of the LLaMA model for a resume text
LlamaReport(resume_text) == << "<report on>" >> \o resume_text

\* lines 160-161: final_report = generate_llama_report(raw_resume_text),
\* which raises RuntimeError when the model is not loaded or generation
\* fails, and the answer built from the report
EpGenerate ==
    /\ request.mode = "endpoint" /\ opc = "generate"
    /\ stages' = Append(stages, "generate")
    /\ IF ~ model_loaded
       THEN /\ Finish(ErrorPayload(500, "LLaMA model not loaded."))
            /\ model_calls' = model_calls
       ELSE /\ model_calls' = Append(model_calls, [ model |-> "llama", text |-> raw_text ])
            /\ \/ Finish(ErrorPayload(500, "Failed to generate report"))
               \/ Finish(ReportPayload(LlamaReport(raw_text)))
    /\ UNCHANGED << request, raw_text, text, cleaned_text, runs, orchRest >>

\* model2.py line 85: text = read_docx(file_path)
M2Read ==
    /\ request.mode = "script" /\ opc = "validate"
    /\ stages' = Append(stages, "read")
    /\ LET r == read_docx(RequestDoc)
       IN  IF r.raised # "none"
           THEN Finish(Unhandled(r.raised)) /\ UNCHANGED << raw_text, text >>
           ELSE raw_text' = r.value /\ text' = r.value /\ opc' = "filter"
                /\ response' = response
    /\ UNCHANGED << request, model_calls, cleaned_text, runs, orchRest >>

\* line 86: cleaned_text = remove_sensitive_info(text)
M2Filter ==
    /\ request.mode = "script" /\ opc = "filter"
    /\ stages' = Append(stages, "filter")
    /\ cleaned_text' = remove_sensitive_info(text)
    /\ opc' = "extract"
    /\ UNCHANGED << request, raw_text, model_calls, text, runs, response, orchRest >>

\* What the NER model and the sentence splitter may return in these runs
OrchNer ==
    { << >>,
      << [ entity |-> "B-PER", word |-> <<"J", "o">> ],
         [ entity |-> "B-ORG", word |-> <<"A", "c", "m", "e">> ] >> }

OrchSents == { << >>, << S_skills >> }

\* line 89: entities = extract_entities(cleaned_text), which hands
\* cleaned_text to the NER pipeline and to spaCy
M2Extract ==
    /\ request.mode = "script" /\ opc = "extract"
    /\ stages' = Append(stages, "extract")
    /\ model_calls' = model_calls \o << [ model |-> "ner", text |-> cleaned_text ],
                                       [ model |-> "spacy", text |-> cleaned_text ] >>
    /\ \E results \in OrchNer, ss \in OrchSents :
          \E e \in extract_entities(results, ss) :
              runs' = << [ entities |-> e, prompt |-> << >>, report |-> << >> ] >>
    /\ opc' = "generate"
    /\ UNCHANGED << request, raw_text, text, cleaned_text, response, orchRest >>

\* line 92: report = generate_report(entities); the generator may raise
M2Generate ==
    /\ request.mode = "script" /\ opc = "generate"
    /\ stages' = Append(stages, "generate")
    /\ \/ /\ runs' = << [ runs[1] EXCEPT
                            !.prompt = generate_report_prompt(runs[1].entities),
                            !.report = generate_report(runs[1].entities) ] >>
          /\ opc' = "write" /\ response' = response
       \/ Finish(Unhandled("generator")) /\ runs' = runs
    /\ UNCHANGED << request, raw_text, model_calls, text, cleaned_text, orchRest >>

\* lines 95-98: the report written to output_path (which may fail) and
\* returned
M2Write ==
    /\ request.mode = "script" /\ opc = "write"
    /\ stages' = Append(stages, "write")
    /\ \/ Finish(ReportPayload(runs[1].report))
       \/ Finish(Unhandled("OSError"))
    /\ UNCHANGED << request, raw_text, model_calls, text, cleaned_text, runs, orchRest >>

NextOrch ==
    \/ EpValidate \/ EpDecode \/ EpRead \/ EpGenerate
    \/ M2Read \/ M2Filter \/ M2Extract \/ M2Generate \/ M2Write

SpecOrch == InitOrch /\ [][NextOrch]_vars

\* C2: in both modes the filter runs after the reader and before any model
\* receives the document text: whenever a model has been called, the
\* stages run so far include the reader and then the filter, and the text
\* the model received is the filter's output
C2_FilterBeforeAnyModel ==
    \A k \in DOMAIN model_calls :
        /\ \E i, j \in DOMAIN stages :
               i < j /\ stages[i] = "read" /\ stages[j] = "filter"
        /\ model_calls[k].text = remove_sensitive_info(raw_text)

\* C3: every request to the endpoint ends in one of two outcomes: an answer
\* that carries the complete report, or a structured error payload that
\* holds a human-readable message and no report
C3_ReportOrStructuredError ==
    (request.mode = "endpoint" /\ opc = "done") =>
        \/ /\ response.kind = "report"
           /\ response.keys = { "report" }
           /\ response.report = LlamaReport(raw_text)
        \/ /\ response.kind = "error"
           /\ response.keys = { "error" }
           /\ response.error # ""

=============================================================================
